---- MODULE Spec2Model ----
(***************************************************************************)
(* Model of arxiv_scan/entry_evaluation.py: the Entry class with its       *)
(* marking methods and evaluate, and the ranking function sort_entries.    *)
(*                                                                         *)
(* Strings are sequences of one-character strings.  Offsets stored in      *)
(* title_marks are 0-based as in the source; sequence indices are 1-based. *)
(***************************************************************************)
EXTENDS Integers, Sequences, FiniteSets

VARIABLES
    title,          \* Entry.title
    abstract,       \* Entry.abstract
    authors,        \* Entry.authors, a sequence of names
    title_marks,    \* Entry.title_marks, a list of offsets (duplicates kept)
    author_marks,   \* Entry.author_marks, one boolean per author
    rating,         \* Entry.rating
    nEvals,         \* number of evaluate calls made on the entry so far
    lastKw,         \* keyword_ratings of the most recent evaluate call
    lastAu,         \* author_ratings of the most recent evaluate call
    lastRA,         \* rate_abstract of the most recent evaluate call
    repeated,       \* the most recent call had the arguments of the one before
    entries,        \* sort_entries: the input list (entry objects)
    sortArgs,       \* sort_entries: arguments of the most recent call
    results,        \* sort_entries: the returned list
    sorted          \* sort_entries has been called

vars == <<title, abstract, authors, title_marks, author_marks, rating, nEvals,
          lastKw, lastAu, lastRA, repeated, entries, sortArgs, results, sorted>>

entryVars == <<title, abstract, authors, title_marks, author_marks, rating,
               nEvals, lastKw, lastAu, lastRA, repeated>>

sortVars == <<entries, sortArgs, results, sorted>>

(***************************************************************************)
(* Bounds                                                                  *)
(***************************************************************************)
\* evaluate is called at most MaxEvals times on the entry
MaxEvals == 2

\* the input list of sort_entries has at most MaxEntries elements
MaxEntries == 4

\* the length argument of sort_entries ranges over None and -2..MaxLength
MaxLength == 3

(***************************************************************************)
(* Generic helpers                                                         *)
(***************************************************************************)
Min(a, b) == IF a <= b THEN a ELSE b

Range(s) == {s[i] : i \in 1..Len(s)}

\* Python's list(reversed(s))
Reverse(s) == [i \in 1..Len(s) |-> s[Len(s) + 1 - i]]

\* Python's s[:n] for n >= 0
Take(s, n) == SubSeq(s, 1, Min(n, Len(s)))

\* all sequences over S without repeated elements (ordered dicts' key orders)
Perms(S) == {p \in UNION {[1..n -> S] : n \in 0..Cardinality(S)} :
                \A i, j \in 1..Len(p) : i # j => p[i] # p[j]}

(***************************************************************************)
(* Text primitives: str.lower, str.count, re.finditer, re.search           *)
(***************************************************************************)
\* str.lower on one character
LowerChar(c) ==
    CASE c = "A" -> "a"
      [] c = "B" -> "b"
      [] c = "L" -> "l"
      [] c = "M" -> "m"
      [] c = "S" -> "s"
      [] OTHER -> c

\* str.lower
Lower(s) == [i \in 1..Len(s) |-> LowerChar(s[i])]

\* \w of the re module: letters are word characters, blank and dot are not
IsWord(c) == c \notin {" ", "."}

\* sub occurs literally in s at index p (1-based)
LiteralAt(sub, s, p) ==
    /\ p >= 1
    /\ p + Len(sub) - 1 <= Len(s)
    /\ \A k \in 1..Len(sub) : s[p + k - 1] = sub[k]

\* the pattern pat, read as a regular expression, matches s at index p:
\* "." matches any character, every other character matches itself (the
\* alphabet holds letters, blank and dot, so every pattern compiles)
RegexAt(pat, s, p) ==
    /\ p >= 1
    /\ p + Len(pat) - 1 <= Len(s)
    /\ \A k \in 1..Len(pat) : pat[k] = "." \/ s[p + k - 1] = pat[k]

\* str.count(sub) for a non-empty sub: left-to-right scan from index p,
\* the scan resumes after the end of each occurrence found
RECURSIVE CountFrom(_, _, _)
CountFrom(s, sub, p) ==
    IF p + Len(sub) - 1 > Len(s) THEN 0
    ELSE IF LiteralAt(sub, s, p) THEN 1 + CountFrom(s, sub, p + Len(sub))
    ELSE CountFrom(s, sub, p + 1)

StrCount(s, sub) == CountFrom(s, sub, 1)

\* [m.start() for m in re.finditer(pat, s)] for a non-empty pat, as 0-based
\* offsets: leftmost match at or after index p, then resume after its end
RECURSIVE FindIterFrom(_, _, _)
FindIterFrom(pat, s, p) ==
    IF p + Len(pat) - 1 > Len(s) THEN << >>
    ELSE IF RegexAt(pat, s, p)
         THEN <<p - 1>> \o FindIterFrom(pat, s, p + Len(pat))
         ELSE FindIterFrom(pat, s, p + 1)

FindIter(pat, s) == FindIterFrom(pat, s, 1)

\* \b between index i and i+1 of s (i in 0..Len(s)): exactly one side is a
\* word character, the outside of the string counting as a non-word
WordBoundary(s, i) ==
    ((i >= 1) /\ IsWord(s[i])) # ((i < Len(s)) /\ IsWord(s[i + 1]))

\* re.search(r'\b{}\b'.format(author), a, flags=re.IGNORECASE) is not None
AuthorSearch(author, a) ==
    \E p \in 1..Len(a) :
        /\ p + Len(author) - 1 <= Len(a)
        /\ WordBoundary(a, p - 1)
        /\ \A k \in 1..Len(author) :
               LowerChar(a[p + k - 1]) = LowerChar(author[k])
        /\ WordBoundary(a, p + Len(author) - 1)

(***************************************************************************)
(* Entry: marking methods                                                  *)
(***************************************************************************)
\* Entry.mark_title_position: append the position to the list
mark_title_position(marks, position) == Append(marks, position)

\* for pos in range(s, e): self.mark_title_position(pos)
RECURSIVE MarkRange(_, _, _)
MarkRange(marks, s, e) ==
    IF s >= e THEN marks
    ELSE MarkRange(mark_title_position(marks, s), s + 1, e)

\* for s, e in zip(starts, ends): mark the range, from the i-th pair on
RECURSIVE MarkSpans(_, _, _, _)
MarkSpans(marks, starts, ends, i) ==
    IF i > Min(Len(starts), Len(ends)) THEN marks
    ELSE MarkSpans(MarkRange(marks, starts[i], ends[i]), starts, ends, i + 1)

\* the body of "for _ in range(counts)", executed n times
RECURSIVE MarkRepeat(_, _, _, _)
MarkRepeat(marks, starts, ends, n) ==
    IF n <= 0 THEN marks
    ELSE MarkRepeat(MarkSpans(marks, starts, ends, 1), starts, ends, n - 1)

\* Entry.mark_title_keyword: counts comes from str.count, the spans from
\* re.finditer over the lowered title
mark_title_keyword(marks, ttl, keyword) ==
    LET counts == StrCount(Lower(ttl), keyword)
        starts == FindIter(keyword, Lower(ttl))
        ends   == [i \in 1..Len(starts) |-> starts[i] + Len(keyword)]
    IN  MarkRepeat(marks, starts, ends, counts)

\* Entry.mark_author: number is a 0-based index
mark_author(amarks, number) == [amarks EXCEPT ![number + 1] = TRUE]

(***************************************************************************)
(* Entry.evaluate                                                          *)
(* A rating table is an ordered dict: a sequence of <<key, weight>> pairs  *)
(* with distinct keys, in iteration order.                                 *)
(***************************************************************************)
\* variant of ResetRating: the rating is not reset before accumulating
ResetRatingKeep(old) == old

\* self.rating = 0
ResetRating(old) == 0

\* variant of AbstractRating: the abstract is rated whatever rate_abstract is
AbstractRatingAlways(abs, keyword, weight, rate_abstract) ==
    StrCount(Lower(abs), keyword) * weight

\* the contribution of the abstract for one keyword (lines 78-79)
AbstractRating(abs, keyword, weight, rate_abstract) ==
    IF rate_abstract THEN StrCount(Lower(abs), keyword) * weight ELSE 0

\* the keyword loop of evaluate from the i-th item on; st = [rating, marks]
RECURSIVE KeywordLoop(_, _, _, _, _, _)
KeywordLoop(st, ttl, abs, keyword_ratings, rate_abstract, i) ==
    IF i > Len(keyword_ratings) THEN st
    ELSE LET keyword == Lower(keyword_ratings[i][1])
             weight  == keyword_ratings[i][2]
             counts  == StrCount(Lower(ttl), keyword)
             marked  == IF counts > 0
                        THEN mark_title_keyword(st.marks, ttl, keyword)
                        ELSE st.marks
             r1      == IF counts > 0 THEN st.rating + counts * weight
                        ELSE st.rating
             r2      == r1 + AbstractRating(abs, keyword, weight, rate_abstract)
         IN  KeywordLoop([rating |-> r2, marks |-> marked],
                         ttl, abs, keyword_ratings, rate_abstract, i + 1)

\* the inner author loop for one fragment, from author index n (1-based) on;
\* st = [rating, amarks]
RECURSIVE AuthorInner(_, _, _, _, _)
AuthorInner(st, auths, author, weight, n) ==
    IF n > Len(auths) THEN st
    ELSE IF AuthorSearch(author, auths[n])
         THEN AuthorInner([rating |-> st.rating + weight,
                           amarks |-> mark_author(st.amarks, n - 1)],
                          auths, author, weight, n + 1)
         ELSE AuthorInner(st, auths, author, weight, n + 1)

\* the author loop of evaluate from the i-th item on
RECURSIVE AuthorLoop(_, _, _, _)
AuthorLoop(st, auths, author_ratings, i) ==
    IF i > Len(author_ratings) THEN st
    ELSE AuthorLoop(AuthorInner(st, auths, author_ratings[i][1],
                                author_ratings[i][2], 1),
                    auths, author_ratings, i + 1)

(***************************************************************************)
(* Inputs of the entry specification                                       *)
(***************************************************************************)
\* the entries the evaluation is run on: title, abstract, authors
InitEntries ==
    { [title    |-> <<"A", "b", " ", "a", "b">>,
       abstract |-> <<"a", "b">>,
       authors  |-> << <<"A", "l", " ", "S", "m">>, <<"s", "m">> >>],
      [title    |-> <<"a", "a", "a">>,
       abstract |-> << >>,
       authors  |-> << <<"A", "l", " ", "S", "m">>, <<"S", "m", "a">> >>],
      [title    |-> <<"a", ".", "a", "b">>,
       abstract |-> <<"a", "a", "B">>,
       authors  |-> << >>],
      [title    |-> <<"a", "a", "B", " ", "a">>,
       abstract |-> <<"A", "a", ".">>,
       authors  |-> << <<"S", "M">> >>] }

\* keyword_ratings items: case-sensitive key and integer weight
KeywordItems ==
    { << <<"A", "B">>, 2 >>, << <<"a", "a">>, -1 >>, << <<"a", ".">>, 3 >> }

\* author_ratings items: name fragment and integer weight
AuthorItems ==
    { << <<"s", "m">>, 5 >>, << <<"A", "L">>, -1 >> }

KeywordTables == Perms(KeywordItems)

AuthorTables == Perms(AuthorItems)

(***************************************************************************)
(* The entry specification: one entry, evaluated repeatedly                *)
(***************************************************************************)
\* Entry.__init__
EntryInit ==
    /\ \E e \in InitEntries :
          /\ title = e.title
          /\ abstract = e.abstract
          /\ authors = e.authors
          /\ author_marks = [i \in 1..Len(e.authors) |-> FALSE]
    /\ title_marks = << >>
    /\ rating = -1
    /\ nEvals = 0
    /\ lastKw = << >>
    /\ lastAu = << >>
    /\ lastRA = TRUE
    /\ repeated = FALSE

\* Entry.evaluate(keyword_ratings, author_ratings, rate_abstract)
Evaluate(keyword_ratings, author_ratings, rate_abstract) ==
    /\ nEvals < MaxEvals
    /\ LET kw == KeywordLoop([rating |-> ResetRating(rating),
                              marks |-> title_marks],
                             title, abstract, keyword_ratings, rate_abstract, 1)
           au == AuthorLoop([rating |-> kw.rating, amarks |-> author_marks],
                            authors, author_ratings, 1)
       IN  /\ rating' = au.rating
           /\ title_marks' = kw.marks
           /\ author_marks' = au.amarks
    /\ nEvals' = nEvals + 1
    /\ lastKw' = keyword_ratings
    /\ lastAu' = author_ratings
    /\ lastRA' = rate_abstract
    /\ repeated' = (/\ nEvals >= 1
                    /\ keyword_ratings = lastKw
                    /\ author_ratings = lastAu
                    /\ rate_abstract = lastRA)
    /\ UNCHANGED <<title, abstract, authors>>

EvaluateCall ==
    /\ \E keyword_ratings \in KeywordTables, author_ratings \in AuthorTables,
          rate_abstract \in BOOLEAN :
          Evaluate(keyword_ratings, author_ratings, rate_abstract)
    /\ UNCHANGED sortVars

(***************************************************************************)
(* sort_entries                                                            *)
(* Entry objects are numbered; EntryRating gives the rating attribute of   *)
(* each.  The optional length is << >> for None and <<n>> for the int n.   *)
(***************************************************************************)
\* the rating attribute of the entry objects handed to sort_entries
EntryRating == <<5, 1, 4, 3, 3>>

Objects == 1..Len(EntryRating)

\* variant of NormalizeLength: a negative length is handed to the slice
NormalizeLengthKeep(length) == length

\* if length is not None and length < 0: length = None
NormalizeLength(length) ==
    IF length # << >> /\ length[1] < 0 THEN << >> ELSE length

\* variant of KeepEntry: the bound is exclusive
KeepEntryStrict(e, rating_min) == EntryRating[e] > rating_min

\* the predicate of filter(): entry.rating >= rating_min
KeepEntry(e, rating_min) == EntryRating[e] >= rating_min

\* filter(lambda entry: entry.rating >= rating_min, entries)
FilterEntries(es, rating_min) ==
    SelectSeq(es, LAMBDA e : KeepEntry(e, rating_min))

\* insert e into the ascending list s behind every element whose key is
\* not greater: the step of a stable sort
RECURSIVE InsertStable(_, _)
InsertStable(s, e) ==
    IF s = << >> THEN <<e>>
    ELSE IF EntryRating[s[Len(s)]] <= EntryRating[e] THEN Append(s, e)
    ELSE Append(InsertStable(SubSeq(s, 1, Len(s) - 1), e), s[Len(s)])

\* stable ascending sort by key=lambda x: x.rating of the first n elements
RECURSIVE StableSort(_, _)
StableSort(s, n) ==
    IF n = 0 THEN << >> ELSE InsertStable(StableSort(s, n - 1), s[n])

\* variant of SortedByRating: the ascending result is simply reversed
SortedByRatingUnstable(s, rev) ==
    IF rev THEN Reverse(StableSort(s, Len(s))) ELSE StableSort(s, Len(s))

\* sorted(iterable, key=lambda x: x.rating, reverse=rev): a stable sort; with
\* reverse the list is reversed, sorted and reversed again, so that equal
\* keys keep their original order
SortedByRating(s, rev) ==
    IF rev THEN Reverse(StableSort(Reverse(s), Len(s)))
    ELSE StableSort(s, Len(s))

\* results[:length]: the slice of Python, None meaning no bound and a
\* negative bound counting from the end
Slice(s, length) ==
    IF length = << >> THEN s
    ELSE IF length[1] >= 0 THEN Take(s, length[1])
    ELSE SubSeq(s, 1, Len(s) + length[1])

\* sort_entries(entries, rating_min, reverse, length)
sort_entries(es, rating_min, reverse, length) ==
    LET len              == NormalizeLength(length)
        entries_filtered == FilterEntries(es, rating_min)
        res              == SortedByRating(entries_filtered, ~reverse)
    IN  Slice(res, len)

(***************************************************************************)
(* Inputs of the ranking specification                                     *)
(***************************************************************************)
EntryLists == UNION {[1..n -> Objects] : n \in 0..MaxEntries}

RatingMins == {0, 3, 6}

Lengths == {<< >>} \cup {<<n>> : n \in -2..MaxLength}

(***************************************************************************)
(* The ranking specification: one list, ranked repeatedly                  *)
(***************************************************************************)
SortInit ==
    /\ entries \in EntryLists
    /\ sortArgs = [rating_min |-> 0, reverse |-> FALSE, length |-> << >>]
    /\ results = << >>
    /\ sorted = FALSE

SortEntries(rating_min, reverse, length) ==
    /\ results' = sort_entries(entries, rating_min, reverse, length)
    /\ sortArgs' = [rating_min |-> rating_min, reverse |-> reverse,
                    length |-> length]
    /\ sorted' = TRUE
    /\ UNCHANGED entries

SortEntriesCall ==
    /\ \E rating_min \in RatingMins, reverse \in BOOLEAN, length \in Lengths :
          SortEntries(rating_min, reverse, length)
    /\ UNCHANGED entryVars

(***************************************************************************)
(* Specifications                                                          *)
(***************************************************************************)
\* the entry specification: the ranking variables stay at rest
Init ==
    /\ EntryInit
    /\ entries = << >>
    /\ sortArgs = [rating_min |-> 0, reverse |-> FALSE, length |-> << >>]
    /\ results = << >>
    /\ sorted = FALSE

Next == EvaluateCall

Spec == Init /\ [][Next]_vars

\* the ranking specification: the entry variables stay at rest
RankInit ==
    /\ SortInit
    /\ title = << >>
    /\ abstract = << >>
    /\ authors = << >>
    /\ title_marks = << >>
    /\ author_marks = << >>
    /\ rating = -1
    /\ nEvals = 0
    /\ lastKw = << >>
    /\ lastAu = << >>
    /\ lastRA = TRUE
    /\ repeated = FALSE

RankNext == SortEntriesCall

RankSpec == RankInit /\ [][RankNext]_vars

(***************************************************************************)
(* Reference notions the properties are stated with                        *)
(***************************************************************************)
\* kw occurs in s at index p, compared character by character without case
OccursAt(kw, s, p) ==
    /\ p + Len(kw) - 1 <= Len(s)
    /\ \A k \in 1..Len(kw) : LowerChar(s[p + k - 1]) = LowerChar(kw[k])

AllOccurrences(kw, s) == {p \in 1..Len(s) : OccursAt(kw, s, p)}

\* the non-overlapping occurrences, taken left to right: an occurrence
\* belongs to the set iff no earlier member of the set overlaps it
Occurrences(kw, s) ==
    CHOOSE P \in SUBSET AllOccurrences(kw, s) :
        \A p \in AllOccurrences(kw, s) :
            p \in P <=> ~ \E q \in P : q < p /\ p - q < Len(kw)

\* the 0-based offsets covered by the occurrences of kw in s
CoveredOffsets(kw, s) ==
    {p - 1 + k : p \in Occurrences(kw, s), k \in 0..(Len(kw) - 1)}

\* the offsets covered by the occurrences of all keywords of a table
ExpectedMarks(ttl, kwItems) ==
    UNION {CoveredOffsets(item[1], ttl) : item \in kwItems}

\* frag occurs in the name a as a whole word, without regard to case
WholeWordMatch(frag, a) ==
    \E p \in 1..Len(a) :
        /\ OccursAt(frag, a, p)
        /\ (p = 1 \/ ~IsWord(a[p - 1]))
        /\ (p + Len(frag) > Len(a) \/ ~IsWord(a[p + Len(frag)]))

\* the score of one keyword item
KeywordScore(item, ttl, abs, rate_abstract) ==
    item[2] * ( Cardinality(Occurrences(item[1], ttl))
              + IF rate_abstract THEN Cardinality(Occurrences(item[1], abs))
                ELSE 0 )

\* the score of one author item: one weight per matching author
AuthorScore(item, auths) ==
    item[2] * Cardinality({i \in 1..Len(auths) : WholeWordMatch(item[1], auths[i])})

RECURSIVE SumKeywordScores(_, _, _, _)
SumKeywordScores(kwItems, ttl, abs, rate_abstract) ==
    IF kwItems = {} THEN 0
    ELSE LET item == CHOOSE x \in kwItems : TRUE
         IN  KeywordScore(item, ttl, abs, rate_abstract)
             + SumKeywordScores(kwItems \ {item}, ttl, abs, rate_abstract)

RECURSIVE SumAuthorScores(_, _)
SumAuthorScores(auItems, auths) ==
    IF auItems = {} THEN 0
    ELSE LET item == CHOOSE x \in auItems : TRUE
         IN  AuthorScore(item, auths) + SumAuthorScores(auItems \ {item}, auths)

\* the score of an entry against two tables given as sets of items
ExpectedRating(ttl, abs, auths, kwItems, auItems, rate_abstract) ==
    SumKeywordScores(kwItems, ttl, abs, rate_abstract)
    + SumAuthorScores(auItems, auths)

\* author i matches some fragment of the table
AuthorMatched(i, auths, auItems) ==
    \E item \in auItems : WholeWordMatch(item[1], auths[i])

RatingIdempotent ==
    [][(nEvals' = nEvals + 1 /\ repeated') => rating' = rating]_vars

\* the second of two calls with the same non-empty tables, rating non-zero
RatingIdempotentWitness ==
    /\ nEvals = 2
    /\ repeated
    /\ lastKw # << >>
    /\ lastAu # << >>
    /\ rating # 0

\* C3: after evaluate on a freshly constructed entry, the set of offsets in
\* title_marks is exactly the union of the offsets covered by the occurrences
\* in the title of the keywords of the table, all inside the title.
MarkCoverage ==
    nEvals = 1 =>
        /\ Range(title_marks) = ExpectedMarks(title, Range(lastKw))
        /\ Range(title_marks) \subseteq 0..(Len(title) - 1)

\* C8: after any sequence of evaluate calls the marks reflect the most recent
\* call only: author_marks[i] holds iff author i matched a fragment of that
\* call's author table, and a call with empty tables leaves rating 0, no
\* title mark and no author mark.
MarksReflectLastCall ==
    nEvals >= 1 =>
        /\ \A i \in 1..Len(authors) :
               author_marks[i] <=> AuthorMatched(i, authors, Range(lastAu))
        /\ lastKw = << >> => title_marks = << >>
        /\ (lastKw = << >> /\ lastAu = << >>) => rating = 0

\* C9: title_marks behaves as a set: one evaluate call on a fresh entry with
\* a single keyword records every covered offset once, however often the
\* keyword occurs in the title.
TitleMarksDeduplicated ==
    (nEvals = 1 /\ Len(lastKw) = 1) =>
        \A i, j \in 1..Len(title_marks) :
            i # j => title_marks[i] # title_marks[j]

\* C10: rating is -1 exactly when evaluate was never called on the entry,
\* and non-negative once it was.
SentinelSound ==
    /\ (rating = -1) <=> (nEvals = 0)
    /\ nEvals >= 1 => rating >= 0

(***************************************************************************)
(* Properties of sort_entries (specification RankSpec)                     *)
(***************************************************************************)
\* number of times the object o occurs in the list s
Occurs(s, o) == Cardinality({i \in 1..Len(s) : s[i] = o})

\* the elements of s whose rating is r, in the order of s
WithRating(s, r) == SelectSeq(s, LAMBDA e : EntryRating[e] = r)

IsPrefix(s, t) == Len(s) <= Len(t) /\ s = SubSeq(t, 1, Len(s))

Unbounded(length) == length = << >> \/ length[1] < 0

\* number of list elements that pass the filter
PassCount(es, rating_min) ==
    Cardinality({i \in 1..Len(es) : EntryRating[es[i]] >= rating_min})

\* C4: every output entry has rating >= rating_min and is an input entry;
\* without a length bound every input entry with rating >= rating_min is in
\* the output as often as in the input; rating_min above every rating gives
\* the empty list.
FilterCorrect ==
    sorted =>
        /\ \A i \in 1..Len(results) :
               /\ EntryRating[results[i]] >= sortArgs.rating_min
               /\ results[i] \in Range(entries)
        /\ Unbounded(sortArgs.length) =>
               \A o \in Objects :
                   Occurs(results, o) =
                       IF EntryRating[o] >= sortArgs.rating_min
                       THEN Occurs(entries, o) ELSE 0
        /\ (\A i \in 1..Len(entries) :
                EntryRating[entries[i]] < sortArgs.rating_min)
               => results = << >>

\* an unbounded call that drops an entry and keeps one whose rating equals
\* rating_min, that entry occurring twice in the input
FilterCorrectWitness ==
    /\ sorted
    /\ Unbounded(sortArgs.length)
    /\ sortArgs.rating_min = 3
    /\ Occurs(entries, 4) = 2
    /\ Occurs(entries, 2) = 1
    /\ Occurs(results, 4) = 2
    /\ Len(results) = Len(entries) - 1

\* C5: adjacent output entries are in non-increasing rating order when
\* reverse is false and in non-decreasing order when it is true; entries of
\* equal rating keep the relative order they have in the input.
OrderCorrect ==
    sorted =>
        /\ \A i \in 1..(Len(results) - 1) :
               IF sortArgs.reverse
               THEN EntryRating[results[i]] <= EntryRating[results[i + 1]]
               ELSE EntryRating[results[i]] >= EntryRating[results[i + 1]]
        /\ \A r \in Range(EntryRating) :
               IsPrefix(WithRating(results, r), WithRating(entries, r))

\* a descending result holding two different entries of equal rating that
\* come in the input order, behind an entry of higher rating
OrderCorrectWitness ==
    /\ sorted
    /\ ~sortArgs.reverse
    /\ entries = <<5, 2, 4, 3>>
    /\ results = <<3, 5, 4>>

ReverseAfterCut ==
    (sorted /\ sortArgs.reverse /\ ~Unbounded(sortArgs.length)) =>
        LET top == sort_entries(entries, sortArgs.rating_min, FALSE,
                                sortArgs.length)
        IN  /\ \A r \in Range(EntryRating) :
                   Len(WithRating(results, r)) = Len(WithRating(top, r))
            /\ \A i \in 1..(Len(results) - 1) :
                   EntryRating[results[i]] <= EntryRating[results[i + 1]]

====
